---- MODULE Spec2Model ----
(***************************************************************************)
(* Conversation memory of the CapAmerica assistant (client.py, app.py).    *)
(*                                                                         *)
(* The Redis server holds one key "conversation:<user_id>" per user, with  *)
(* an expiry instant.  A request entered through POST /chat/agent runs     *)
(* ask_question: setup_agent, get_recent_context, then process_question    *)
(* (read the record, append the user turn, call the agent, append the      *)
(* assistant turn, write the whole record back with a 12-hour TTL).        *)
(*                                                                         *)
(* Text is a sequence of one-character strings, so that re.findall,        *)
(* str.join and the f-string templates are computed character by           *)
(* character.                                                              *)
(***************************************************************************)
EXTENDS Integers, Sequences, FiniteSets, TLC

VARIABLES
    now,      \* the clock, in seconds
    store,    \* the Redis keyspace: key -> <<>> (no key) or <<[val, exp]>>
    req,      \* the requests in flight: slot -> position and locals
    last,     \* what the most recent operation returned to its caller
    written,  \* history: per user, the last SETEX or DEL the server executed
    completed \* history: per user, the question/answer cycles that returned
              \* since the record was last cleared, dropped by the server or
              \* replaced by a direct store_conversation_memory call

vars == <<now, store, req, last, written, completed>>

----------------------------------------------------------------------------
(* Bounds of the model *)

\* process_question is called only while the user's stored history is shorter
MaxStored == 7
\* /chat/agent is called only while the user's stored history is shorter
MaxAsked == 3
\* where the clock advances, questions are asked only while it is shorter
MaxKept == 3
\* where requests overlap, questions are asked only while it is shorter
MaxRaced == 3
\* sample instants are k * (TTL - 1) + j, k <= MaxEpoch, j <= MaxOffset
MaxEpoch == 2
MaxOffset == 2
\* quantities handed to the pricing tools: -MaxReturned..MaxQuantity
MaxQuantity == 2600
MaxReturned == 3

Users == {"u1", "u2"}
Slots == {"r1", "r2"}

----------------------------------------------------------------------------
(* Program constants *)

\* redis_client.setex(key, 43200, ...)
TTL == 43200
\* messages[-6:] in process_question
ContextWindow == 6
\* context_messages[-3:] in process_question
SummaryWindow == 3
\* messages[-4:] in get_recent_context
RecentWindow == 4

----------------------------------------------------------------------------
(* Text *)

Digits == {"0", "1", "2", "3", "4", "5", "6", "7", "8", "9"}

\* char.isdigit()
IsDigit(c) == c \in Digits

\* s[-n:] for n > 0
LastN(s, n) == IF Len(s) <= n THEN s ELSE SubSeq(s, Len(s) - n + 1, Len(s))

RECURSIVE Flatten(_)
Flatten(ss) == IF ss = <<>> THEN <<>> ELSE Head(ss) \o Flatten(Tail(ss))

\* sep.join(parts)
RECURSIVE Join(_, _)
Join(parts, sep) ==
    IF parts = <<>> THEN <<>>
    ELSE IF Len(parts) = 1 THEN parts[1]
    ELSE parts[1] \o sep \o Join(Tail(parts), sep)

\* the elements of a sequence
Range(s) == {s[k] : k \in DOMAIN s}

\* the iteration orders of set(...): every enumeration without repetition
RECURSIVE Orders(_)
Orders(S) ==
    IF S = {} THEN {<<>>}
    ELSE UNION {{<<x>> \o o : o \in Orders(S \ {x})} : x \in S}

\* the index of the last digit of the run of digits that starts at p
RECURSIVE DigitsEnd(_, _)
DigitsEnd(s, p) ==
    IF p < Len(s) /\ IsDigit(s[p + 1]) THEN DigitsEnd(s, p + 1) ELSE p

\* re.findall(r'i\d+', s) scanning from position p: leftmost, greedy,
\* non-overlapping matches in order
RECURSIVE FindAllFrom(_, _)
FindAllFrom(s, p) ==
    IF p > Len(s) THEN <<>>
    ELSE IF s[p] = "i" /\ p < Len(s) /\ IsDigit(s[p + 1])
         THEN LET q == DigitsEnd(s, p + 1)
              IN  <<SubSeq(s, p, q)>> \o FindAllFrom(s, q + 1)
         ELSE FindAllFrom(s, p + 1)

FindAll(s) == FindAllFrom(s, 1)

----------------------------------------------------------------------------
(* The record and its JSON form *)

Turn(role, content) == [role |-> role, content |-> content]

\* {"messages": [], "metadata": {}}
EmptyMemory == [messages |-> <<>>, metadata |-> {}]

\* json.dumps of a record: an opaque string that json.loads reads back.  The
\* records written here hold only strings, lists and string-keyed dicts.
JsonDumps(d) == [json |-> d]
JsonLoads(v) == v.json

\* a key that leaves the user out
KeyOfDefaultUser(u) == <<"conversation:", "default_user">>

\* f"conversation:{user_id}"
Key(u) == <<"conversation:", u>>

Keys == {Key(u) : u \in Users}

----------------------------------------------------------------------------
(* The Redis server *)

\* SETEX key ttl val at instant t
RedisSetex(s, k, ttl, val, t) ==
    [s EXCEPT ![k] = <<[val |-> val, exp |-> t + ttl]>>]

\* GET key at instant t: the possible replies, <<>> for nil.  At the very
\* instant of expiry the server may already or not yet have dropped the key.
RedisGet(s, k, t) ==
    IF s[k] = <<>> THEN {<<>>}
    ELSE IF t < s[k][1].exp THEN {<<s[k][1].val>>}
    ELSE IF t = s[k][1].exp THEN {<<s[k][1].val>>, <<>>}
    ELSE {<<>>}

\* DEL key
RedisDelete(s, k) == [s EXCEPT ![k] = <<>>]

\* the keyspace once the clock shows t: keys past their expiry are gone
RedisExpire(s, t) ==
    [k \in DOMAIN s |-> IF s[k] # <<>> /\ s[k][1].exp < t THEN <<>> ELSE s[k]]

----------------------------------------------------------------------------
(* client.py: the memory functions.  up = FALSE is a Redis call that raises *)

\* metadata or {} ; the argument is <<>> for None, <<m>> for a dict m
MetadataOrEmpty(metadata) == IF metadata = <<>> THEN {} ELSE metadata[1]

MemoryData(u, messages, metadata, t) ==
    [messages |-> messages,
     metadata |-> MetadataOrEmpty(metadata),
     last_updated |-> t,
     user_id |-> u]

\* a store_conversation_memory that appends the two new turns to the list
\* the server holds instead of replacing the list
StoreAppending(s, u, messages, metadata, t, up) ==
    IF up
    THEN LET held == IF s[Key(u)] = <<>> THEN <<>> ELSE JsonLoads(s[Key(u)][1].val).messages
         IN  RedisSetex(s, Key(u), TTL,
                        JsonDumps(MemoryData(u, held \o LastN(messages, 2), metadata, t)), t)
    ELSE s

\* a store_conversation_memory that sets the expiry only when it creates the
\* key and keeps the running one otherwise
StoreKeepingTtl(s, u, messages, metadata, t, up) ==
    IF up
    THEN [s EXCEPT ![Key(u)] =
            <<[val |-> JsonDumps(MemoryData(u, messages, metadata, t)),
               exp |-> IF s[Key(u)] = <<>> THEN t + TTL ELSE s[Key(u)][1].exp]>>]
    ELSE s

\* store_conversation_memory: the keyspace after the call
store_conversation_memory(s, u, messages, metadata, t, up) ==
    IF up
    THEN RedisSetex(s, Key(u), TTL, JsonDumps(MemoryData(u, messages, metadata, t)), t)
    ELSE s

\* get_conversation_memory: the records the call can return
get_conversation_memory(s, u, t, up) ==
    IF up
    THEN {IF data # <<>> THEN JsonLoads(data[1]) ELSE EmptyMemory :
            data \in RedisGet(s, Key(u), t)}
    ELSE {EmptyMemory}

\* a clear_conversation_memory that stores an empty history instead of
\* deleting the key
ClearByOverwriting(s, u, up) ==
    IF up
    THEN RedisSetex(s, Key(u), TTL, JsonDumps(MemoryData(u, <<>>, <<>>, 0)), 0)
    ELSE s

\* clear_conversation_memory: the keyspace after the call
clear_conversation_memory(s, u, up) ==
    IF up THEN RedisDelete(s, Key(u)) ELSE s

----------------------------------------------------------------------------
(* client.py: get_recent_context, the part after the read *)

\* 'i' in content and any(char.isdigit() for char in content)
MayNameProduct(content) ==
    /\ \E k \in DOMAIN content : content[k] = "i"
    /\ \E k \in DOMAIN content : IsDigit(content[k])

\* what one turn adds to recent_products (every stored turn is a dict with
\* a 'content' entry)
ProductIdsOf(msg) ==
    IF MayNameProduct(msg.content) THEN FindAll(msg.content) ELSE <<>>

\* a loop over messages[-5:]
RecentProductsOfFive(messages) ==
    LET recent == LastN(messages, RecentWindow + 1)
    IN  Flatten([k \in DOMAIN recent |-> ProductIdsOf(recent[k])])

\* recent_products after the loop over messages[-4:]
RecentProducts(messages) ==
    LET recent == LastN(messages, RecentWindow)
    IN  Flatten([k \in DOMAIN recent |-> ProductIdsOf(recent[k])])

\* "RECENT CONTEXT: Customer was recently asking about product(s): " and
\* ". When they refer to 'that hat' or similar, they likely mean one of these
\* products.", shortened: the fixed text holds the letter i and no digit
HintHead == <<"R", "E", "C", "E", "N", "T", ":", " ">>
HintTail == <<".", " ", "s", "i", "m", "i", "l", "a", "r", ".">>

CommaSpace == <<",", " ">>

\* the f-string of the return statement, for one iteration order of the set
HintText(order) == HintHead \o Join(order, CommaSpace) \o HintTail

\* the hints the function can return for a message list
RecentContext(messages) ==
    LET recent_products == IF messages # <<>> THEN RecentProducts(messages) ELSE <<>>
    IN  IF recent_products # <<>>
        THEN {HintText(o) : o \in Orders(Range(recent_products))}
        ELSE {<<>>}

----------------------------------------------------------------------------
(* client.py: ask_question, the prompt built around the caller's question *)

\* The static prompt, shortened to the text next to its placeholders and to
\* product ids it names ("IDs like i3038, i7041, i7256, i8501" and "(e.g.,
\* i7041, i8502)" in the source): i7041 twice and i8502 are kept.
PromptHead == <<"Y", "o", "u", ".", "\n", " ">>
PromptCatalog ==
    <<"\n", " ", "I", "D", "s", " ", "i", "7", "0", "4", "1", ",", " ",
      "2", "4", ",", " ", "4", "8", " ",
      "(", "i", "7", "0", "4", "1", ",", " ", "i", "8", "5", "0", "2", ")", "\n", " ">>
PromptAsk == <<"\n", " ", "Q", ":", "*", "*", " ">>
PromptTail == <<"\n", " ", "P", "l", "e", "a", "s", "e", ".", "\n">>

\* f"- Style Preference: {style_preference}" if style_preference else ""
StyleLine(style) == IF style = <<>> THEN <<>> ELSE <<"-", " ">> \o style

\* a prompt that leaves {recent_context} out
ContextualQuestionWithoutHint(recent_context, question, style) ==
    PromptHead \o PromptCatalog \o StyleLine(style) \o PromptAsk \o question \o PromptTail

\* contextual_question
ContextualQuestion(recent_context, question, style) ==
    PromptHead \o recent_context \o PromptCatalog \o StyleLine(style)
        \o PromptAsk \o question \o PromptTail

----------------------------------------------------------------------------
(* client.py: process_question, the payload for the agent *)

\* json.dumps of one string
RECURSIVE JsonEscape(_)
JsonEscape(s) ==
    IF s = <<>> THEN <<>>
    ELSE (CASE Head(s) = "\"" -> <<"\\", "\"">>
            [] Head(s) = "\\" -> <<"\\", "\\">>
            [] Head(s) = "\n" -> <<"\\", "n">>
            [] OTHER -> <<Head(s)>>) \o JsonEscape(Tail(s))

JsonString(s) == <<"\"">> \o JsonEscape(s) \o <<"\"">>

\* json.dumps of a list of strings
JsonList(ss) ==
    <<"[">> \o Join([k \in DOMAIN ss |-> JsonString(ss[k])], CommaSpace) \o <<"]">>

\* "Conversation history for context: ", shortened
HistoryHead == <<"H", "i", "s", "t", ":", " ">>

\* a payload of the whole history, untrimmed
FullMessagesUntrimmed(messages, user_question) ==
    IF Len(messages) > 1
    THEN messages \o
            <<Turn("system",
                   HistoryHead \o JsonList([k \in DOMAIN LastN(messages, SummaryWindow) |->
                                               LastN(messages, SummaryWindow)[k].content]))>>
    ELSE <<Turn("user", user_question)>>

\* full_messages
FullMessages(messages, user_question) ==
    IF Len(messages) > 1
    THEN LET context_messages == LastN(messages, ContextWindow)
             recent == LastN(context_messages, SummaryWindow)
         IN  context_messages \o
                 <<Turn("system",
                        HistoryHead \o JsonList([k \in DOMAIN recent |-> recent[k].content]))>>
    ELSE <<Turn("user", user_question)>>

----------------------------------------------------------------------------
(* Inputs *)

\* questions: one naming i9; one with an i and digits but no product id
PriceQuestion == <<"i", "9", "?">>
Questions == {PriceQuestion, <<"h", "i", " ", "4", "8">>}
\* a query that request.query.strip() empties
BlankQuery == <<" ">>
\* answers: one naming i9 and i12 back to back; one naming nothing
Answers == {<<"i", "9", "i", "1", "2">>, <<"o", "k">>}
\* str(e) of an exception of agent.ainvoke or setup_agent
Errors == {<<"b", "o", "o", "m">>}
\* str(e) of an exception of setup_agent in the requests through /chat/agent
SetupErrors == {<<"m", "c", "p">>}
\* metadata arguments: None, {} and a dict with one entry
Metadatas == {<<>>, <<{}>>, <<{<<"tier", "gold">>}>>}

\* the instants the clock is sampled at
Instants == {k * (TTL - 1) + j : k \in 0..MaxEpoch, j \in 0..MaxOffset}

----------------------------------------------------------------------------
(* State *)

\* hint: recent_context of ask_question, "" in a direct call of
\* process_question; faults: the Redis calls of the request that raised so far
Idle ==
    [pc |-> "idle", via |-> "", user |-> "", query |-> <<>>, hint |-> <<>>,
     user_question |-> <<>>, messages |-> <<>>, faults |-> {}]

\* what an operation hands back: HTTP status and body for /chat/agent, the
\* returned value for a direct call.  up: the Redis call of the step worked;
\* agent: <<>> or <<what agent.ainvoke returned in the step>>; faults: the
\* Redis calls that raised during the request that ends with the step
Obs(op, u) ==
    [op |-> op, user |-> u, status |-> 0, response |-> <<>>,
     got |-> EmptyMemory, hint |-> <<>>, up |-> TRUE, agent |-> <<>>, faults |-> {}]

\* the values of written: no SETEX or DEL yet; a SETEX of doc at instant at;
\* a DEL that removed a record of `removed` messages (0 when there was none)
NeverWritten == [state |-> "never", doc |-> EmptyMemory, at |-> 0, removed |-> 0]
Written(doc, t) == [state |-> "written", doc |-> doc, at |-> t, removed |-> 0]
Cleared(n) == [state |-> "cleared", doc |-> EmptyMemory, at |-> 0, removed |-> n]

\* the messages of the key as the server holds it
Stored(u) == IF store[Key(u)] = <<>> THEN <<>> ELSE JsonLoads(store[Key(u)][1].val).messages

Init ==
    /\ now = 0
    /\ store = [k \in Keys |-> <<>>]
    /\ req = [r \in Slots |-> Idle]
    /\ last = Obs("init", "")
    /\ written = [u \in Users |-> NeverWritten]
    /\ completed = [u \in Users |-> <<>>]

\* f"Error processing query: {str(e)}", shortened
ErrorDetail(e) == <<"E", "r", "r", ":", " ">> \o e

\* query.strip() == ""
IsBlank(q) == \A k \in DOMAIN q : q[k] \in {" ", "\n", "\t"}

\* user ids that request.user_id.strip() empties
BlankUsers == {"", " "}

----------------------------------------------------------------------------
(* app.py: POST /chat/agent *)

\* ask_question_endpoint up to the call of ask_question
CallEndpoint(r, u, q) ==
    /\ req[r].pc = "idle"
    /\ IF IsBlank(q) \/ u \in BlankUsers
       THEN /\ req' = req
            /\ last' = [Obs("respond", "") EXCEPT !.status = 400]
       ELSE /\ req' = [req EXCEPT ![r] =
                        [Idle EXCEPT !.pc = "setup", !.via = "endpoint",
                                     !.user = u, !.query = q]]
            /\ last' = Obs("accept", u)
    /\ UNCHANGED <<now, store, written, completed>>

\* what the caller of a request gets when an exception leaves it
Failure(r, e) ==
    IF req[r].via = "endpoint"
    THEN [Obs("respond", req[r].user) EXCEPT !.status = 500, !.response = ErrorDetail(e)]
    ELSE [Obs("raise", req[r].user) EXCEPT !.response = e]

\* a request that fails when the write of the record raised
SuccessUnlessStoreFailed(r, answer, up) ==
    IF up
    THEN [Obs("respond", req[r].user) EXCEPT !.status = 200, !.response = answer]
    ELSE [Obs("respond", req[r].user) EXCEPT
            !.status = 500, !.response = ErrorDetail(<<"r", "e", "d", "i", "s">>), !.up = up]

\* what the caller of a request gets when process_question returns
Success(r, answer, up) ==
    IF req[r].via = "endpoint"
    THEN [Obs("respond", req[r].user) EXCEPT !.status = 200, !.response = answer, !.up = up]
    ELSE [Obs("return", req[r].user) EXCEPT !.response = answer, !.up = up]

----------------------------------------------------------------------------
(* client.py: ask_question *)

\* agent = await setup_agent()
SetupAgent(r) ==
    /\ req[r].pc = "setup"
    /\ req' = [req EXCEPT ![r].pc = "context"]
    /\ last' = Obs("setup", req[r].user)
    /\ UNCHANGED <<now, store, written, completed>>

SetupAgentRaises(r, e) ==
    /\ req[r].pc = "setup"
    /\ req' = [req EXCEPT ![r] = Idle]
    /\ last' = Failure(r, e)
    /\ UNCHANGED <<now, store, written, completed>>

\* recent_context = await get_recent_context(user_id), then the prompt
GetRecentContext(r, up) ==
    /\ req[r].pc = "context"
    /\ \E memory_data \in get_conversation_memory(store, req[r].user, now, up) :
         \E recent_context \in RecentContext(memory_data.messages) :
            /\ req' = [req EXCEPT ![r].pc = "read",
                                  ![r].hint = recent_context,
                                  ![r].user_question =
                                      ContextualQuestion(recent_context, req[r].query, <<>>),
                                  ![r].faults = IF up THEN @ ELSE @ \cup {"context"}]
            /\ last' = [Obs("context", req[r].user) EXCEPT !.hint = recent_context, !.up = up]
    /\ UNCHANGED <<now, store, written, completed>>

----------------------------------------------------------------------------
(* client.py: process_question *)

\* from the read of the record to the await of agent.ainvoke
ProcessQuestionReads(r, via, u, query, user_question, up) ==
    \E memory_data \in get_conversation_memory(store, u, now, up) :
        /\ req' = [req EXCEPT ![r] =
                    [pc |-> "agent", via |-> via, user |-> u, query |-> query,
                     hint |-> req[r].hint, user_question |-> user_question,
                     messages |-> Append(memory_data.messages,
                                         Turn("user", user_question)),
                     faults |-> IF up THEN req[r].faults ELSE req[r].faults \cup {"read"}]]
        /\ last' = [Obs("read", u) EXCEPT !.got = memory_data, !.up = up]

\* a direct call process_question(agent, q, u), up to the await
CallProcessQuestion(r, u, q, up) ==
    /\ req[r].pc = "idle"
    /\ ProcessQuestionReads(r, "direct", u, q, q, up)
    /\ UNCHANGED <<now, store, written, completed>>

\* return await process_question(agent, contextual_question, user_id), up
\* to the await
ReadMemory(r, up) ==
    /\ req[r].pc = "read"
    /\ ProcessQuestionReads(r, req[r].via, req[r].user, req[r].query,
                            req[r].user_question, up)
    /\ UNCHANGED <<now, store, written, completed>>

\* a process_question that hands over its two new turns only
AnsweredDelta(messages, response_content) ==
    Append(LastN(messages, 1), Turn("assistant", response_content))

\* a process_question that appends the answer to full_messages, the list
\* sent to the agent, and stores that
AnsweredFromPayload(messages, response_content) ==
    Append(FullMessages(messages, messages[Len(messages)].content),
           Turn("assistant", response_content))

\* a process_question that keeps the trimmed context instead of the history
AnsweredTrimmed(messages, response_content) ==
    Append(LastN(messages, ContextWindow), Turn("assistant", response_content))

\* the list process_question hands to store_conversation_memory
Answered(messages, response_content) ==
    Append(messages, Turn("assistant", response_content))

\* agent.ainvoke returns: append the answer, store, return it
AgentAnswers(r, response_content, up) ==
    /\ req[r].pc = "agent"
    /\ store' = store_conversation_memory(store, req[r].user,
                    Answered(req[r].messages, response_content), <<>>, now, up)
    /\ written' = IF up
                  THEN [written EXCEPT ![req[r].user] =
                          Written(MemoryData(req[r].user,
                                             Answered(req[r].messages, response_content),
                                             <<>>, now), now)]
                  ELSE written
    /\ completed' = [completed EXCEPT ![req[r].user] =
                        Append(@, [question |-> req[r].user_question,
                                   hint |-> req[r].hint,
                                   answer |-> response_content])]
    /\ req' = [req EXCEPT ![r] = Idle]
    /\ last' = [Success(r, response_content, up) EXCEPT
                    !.agent = <<response_content>>,
                    !.faults = IF up THEN req[r].faults ELSE req[r].faults \cup {"store"}]
    /\ UNCHANGED now

\* a process_question that stores the question before it awaits the agent
AgentRaisesAfterStoring(r, e) ==
    /\ req[r].pc = "agent"
    /\ store' = store_conversation_memory(store, req[r].user, req[r].messages, <<>>, now, TRUE)
    /\ req' = [req EXCEPT ![r] = Idle]
    /\ last' = Failure(r, e)
    /\ UNCHANGED <<now, written, completed>>

\* agent.ainvoke raises: nothing is stored, the exception leaves the request
AgentRaises(r, e) ==
    /\ req[r].pc = "agent"
    /\ req' = [req EXCEPT ![r] = Idle]
    /\ last' = Failure(r, e)
    /\ UNCHANGED <<now, store, written, completed>>

----------------------------------------------------------------------------
(* client.py: direct calls of the memory functions *)

\* clear_conversation(u)
ClearConversation(u, up) ==
    /\ store' = clear_conversation_memory(store, u, up)
    /\ written' = IF up THEN [written EXCEPT ![u] = Cleared(Len(Stored(u)))] ELSE written
    /\ completed' = IF up THEN [completed EXCEPT ![u] = <<>>] ELSE completed
    /\ last' = [Obs("clear", u) EXCEPT !.up = up]
    /\ UNCHANGED <<now, req>>

\* get_conversation_memory(u)
GetMemory(u, up) ==
    /\ \E memory_data \in get_conversation_memory(store, u, now, up) :
         last' = [Obs("get", u) EXCEPT !.got = memory_data, !.up = up]
    /\ UNCHANGED <<now, store, req, written, completed>>

\* await get_recent_context(u)
CallGetRecentContext(u, up) ==
    /\ \E memory_data \in get_conversation_memory(store, u, now, up) :
         \E recent_context \in RecentContext(memory_data.messages) :
            last' = [Obs("context", u) EXCEPT !.hint = recent_context, !.up = up]
    /\ UNCHANGED <<now, store, req, written, completed>>

\* store_conversation_memory(u, messages, metadata)
StoreMemory(u, messages, metadata, up) ==
    /\ store' = store_conversation_memory(store, u, messages, metadata, now, up)
    /\ written' = IF up
                  THEN [written EXCEPT ![u] = Written(MemoryData(u, messages, metadata, now), now)]
                  ELSE written
    /\ completed' = IF up THEN [completed EXCEPT ![u] = <<>>] ELSE completed
    /\ last' = [Obs("store", u) EXCEPT !.up = up]
    /\ UNCHANGED <<now, req>>

----------------------------------------------------------------------------
(* The clock and the server's expiry *)

Tick(t) ==
    /\ t > now
    /\ now' = t
    /\ store' = RedisExpire(store, t)
    /\ completed' = [u \in Users |->
                        IF RedisExpire(store, t)[Key(u)] = <<>> THEN <<>> ELSE completed[u]]
    /\ last' = Obs("tick", "")
    /\ UNCHANGED <<req, written>>

----------------------------------------------------------------------------
(* One user asking one question after the other, the store reachable, no   *)
(* clear and no expiry                                                     *)

SeqUser == "u1"
SeqSlot == "r1"

\* the model takes up a question only while the stored history is short
Admit(u, max) ==
    u \in Users => (Len(Stored(u)) < max /\ 2 * Len(completed[u]) < max)

NextSeq ==
    \/ \E q \in Questions \cup {BlankQuery} :
         Admit(SeqUser, MaxAsked) /\ CallEndpoint(SeqSlot, SeqUser, q)
    \/ SetupAgent(SeqSlot)
    \/ GetRecentContext(SeqSlot, TRUE)
    \/ \E q \in Questions :
         Admit(SeqUser, MaxStored) /\ CallProcessQuestion(SeqSlot, SeqUser, q, TRUE)
    \/ ReadMemory(SeqSlot, TRUE)
    \/ \E a \in Answers : AgentAnswers(SeqSlot, a, TRUE)
    \/ \E e \in Errors : AgentRaises(SeqSlot, e)
    \/ req[SeqSlot].pc = "idle" /\ GetMemory(SeqUser, TRUE)
    \/ req[SeqSlot].pc = "idle" /\ CallGetRecentContext(SeqUser, TRUE)

SpecSeq == Init /\ [][NextSeq]_vars

----------------------------------------------------------------------------
(* The memory functions over time: questions one after the other, direct   *)
(* calls of get, store and clear, the clock advancing, the store reachable *)

\* message lists handed to a direct store_conversation_memory call
StoredDirectly ==
    {<<>>, <<Turn("user", <<"h", "i">>), Turn("assistant", <<"o", "k">>)>>}

NextStore ==
    \/ \E q \in Questions :
         Admit(SeqUser, MaxKept) /\ CallProcessQuestion(SeqSlot, SeqUser, q, TRUE)
    \/ \E a \in Answers : AgentAnswers(SeqSlot, a, TRUE)
    \/ GetMemory(SeqUser, TRUE)
    \/ ClearConversation(SeqUser, TRUE)
    \/ \E messages \in StoredDirectly, metadata \in Metadatas :
         StoreMemory(SeqUser, messages, metadata, TRUE)
    \/ \E t \in Instants : Tick(t)

SpecStore == Init /\ [][NextStore]_vars

----------------------------------------------------------------------------
(* One user's requests through /chat/agent, one after the other, with      *)
(* Redis calls that may raise                                              *)

NextHttp ==
    \/ \E u \in {SeqUser} \cup BlankUsers, q \in {PriceQuestion, BlankQuery} :
         Admit(u, MaxAsked) /\ CallEndpoint(SeqSlot, u, q)
    \/ SetupAgent(SeqSlot)
    \/ \E e \in SetupErrors : SetupAgentRaises(SeqSlot, e)
    \/ \E up \in BOOLEAN : GetRecentContext(SeqSlot, up)
    \/ \E up \in BOOLEAN : ReadMemory(SeqSlot, up)
    \/ \E a \in Answers, up \in BOOLEAN : AgentAnswers(SeqSlot, a, up)
    \/ \E e \in Errors : AgentRaises(SeqSlot, e)
    \/ \E up \in BOOLEAN : ClearConversation(SeqUser, up)
    \/ \E up \in BOOLEAN : GetMemory(SeqUser, up)

SpecHttp == Init /\ [][NextHttp]_vars


----------------------------------------------------------------------------
(* The service: calls of process_question for several users overlapping,   *)
(* clears and gets in between, the store reachable                         *)

Next ==
    \/ \E r \in Slots, u \in Users :
         Admit(u, MaxRaced) /\ CallProcessQuestion(r, u, PriceQuestion, TRUE)
    \/ \E r \in Slots, a \in Answers : AgentAnswers(r, a, TRUE)
    \/ \E r \in Slots, e \in Errors : AgentRaises(r, e)
    \/ \E u \in Users : ClearConversation(u, TRUE)
    \/ \E u \in Users : GetMemory(u, TRUE)

Spec == Init /\ [][Next]_vars

----------------------------------------------------------------------------
(* One user's record over its lifetimes: calls of process_question that    *)
(* overlap, clears, the clock advancing and the server expiring the key,   *)
(* reads that may fail                                                     *)

NextLife ==
    \/ \E r \in Slots, up \in BOOLEAN :
         Admit(SeqUser, MaxRaced) /\ CallProcessQuestion(r, SeqUser, PriceQuestion, up)
    \/ \E r \in Slots, a \in Answers : AgentAnswers(r, a, TRUE)
    \/ \E r \in Slots, e \in Errors : AgentRaises(r, e)
    \/ ClearConversation(SeqUser, TRUE)
    \/ \E t \in Instants : Tick(t)

SpecLife == Init /\ [][NextLife]_vars

----------------------------------------------------------------------------
(* One user's calls of ask_question through /chat/agent, one after the     *)
(* other, the store reachable, no clear and no expiry                      *)

NextAsk ==
    \/ Admit(SeqUser, MaxStored) /\ CallEndpoint(SeqSlot, SeqUser, PriceQuestion)
    \/ SetupAgent(SeqSlot)
    \/ GetRecentContext(SeqSlot, TRUE)
    \/ ReadMemory(SeqSlot, TRUE)
    \/ \E a \in Answers : AgentAnswers(SeqSlot, a, TRUE)

SpecAsk == Init /\ [][NextAsk]_vars

----------------------------------------------------------------------------
(* mcp_functions.py: the pricing tools *)

\* a cell is <<price in cents>>, or NaN: what pd.isna holds of, an empty
\* cell of products.csv or the None that product_data.get returns for a
\* column the file does not have
NaN == <<>>

TierLabels == {"24", "48", "96", "144", "576", "2500+"}

\* f"{embroidery_type}_embroidery_{tier}"
Column(embroidery_type, tier) == <<embroidery_type, "_embroidery_", tier>>

\* a row of products.csv: a title and a price, or NaN, in every
\* column flat_embroidery_* and 3d_embroidery_*
Row(title, flat, threeD) ==
    [title |-> title,
     cells |-> [c \in {Column(e, t) : e \in {"flat", "3d"}, t \in TierLabels} |->
                    IF c[1] = "flat" THEN flat[c[3]] ELSE threeD[c[3]]]]

\* load_csv_data(): a catalogue of two products, the second with empty cells
Products ==
    [id \in {<<"i", "7", "0", "4", "1">>, <<"i", "8", "5", "0", "2">>} |->
        IF id = <<"i", "7", "0", "4", "1">>
        THEN Row("Trucker",
                 [t \in TierLabels |->
                    CASE t = "24" -> <<1600>> [] t = "48" -> <<1450>> [] t = "96" -> <<1350>>
                      [] t = "144" -> <<1250>> [] t = "576" -> <<1150>> [] OTHER -> <<1050>>],
                 [t \in TierLabels |->
                    CASE t = "24" -> <<1900>> [] t = "48" -> <<1750>> [] t = "96" -> <<1650>>
                      [] t = "144" -> <<1550>> [] t = "576" -> <<1450>> [] OTHER -> <<1350>>])
        ELSE Row("Visor",
                 [t \in TierLabels |->
                    CASE t = "24" -> <<2700>> [] t = "48" -> <<2500>> [] t = "96" -> <<2300>>
                      [] t = "144" -> <<2100>> [] t = "576" -> <<1900>> [] OTHER -> NaN],
                 [t \in TierLabels |-> IF t = "24" THEN <<3000>> ELSE NaN])]

\* load_patches_data(): the patches in file order, prices in cents
Patches ==
    <<[name |-> <<"M", "o", "l", "d", "e", "d", " ", "P", "a", "t", "c", "h">>, price |-> 600],
      [name |-> <<"W", "o", "v", "e", "n", " ", "P", "a", "t", "c", "h">>, price |-> 500]>>

\* str.lower() of one character, for the letters in use
LowerChar(c) ==
    CASE c = "M" -> "m" [] c = "P" -> "p" [] c = "W" -> "w" [] c = "D" -> "d" [] OTHER -> c

\* str.lower()
Lower(s) == [k \in DOMAIN s |-> LowerChar(s[k])]

\* sub in s
Contains(sub, s) ==
    \E a \in 0..(Len(s) - Len(sub)) : SubSeq(s, a + 1, a + Len(sub)) = sub

\* if not product_id.startswith('i'): product_id = 'i' + product_id
NormalizeProductId(product_id) ==
    IF product_id # <<>> /\ product_id[1] = "i" THEN product_id ELSE <<"i">> \o product_id

\* embroidery_type.lower(), then 'flat' unless it is one of allowed
NormalizeEmbroidery(embroidery_type, allowed) ==
    IF Lower(embroidery_type) \in allowed THEN Lower(embroidery_type) ELSE <<"f", "l", "a", "t">>

\* the text of an embroidery type as it stands in a column name
EmbroideryName(e) ==
    CASE e = <<"f", "l", "a", "t">> -> "flat"
      [] e = <<"3", "d">> -> "3d"
      [] OTHER -> "none"

\* a tier chosen with > in place of >=
QtyColumnAbove(embroidery_type, quantity) ==
    IF quantity > 2500 THEN Column(embroidery_type, "2500+")
    ELSE IF quantity > 576 THEN Column(embroidery_type, "576")
    ELSE IF quantity > 144 THEN Column(embroidery_type, "144")
    ELSE IF quantity > 96 THEN Column(embroidery_type, "96")
    ELSE IF quantity > 48 THEN Column(embroidery_type, "48")
    ELSE Column(embroidery_type, "24")

\* qty_column: the if/elif chain on quantity, the same in both tools
QtyColumn(embroidery_type, quantity) ==
    IF quantity >= 2500 THEN Column(embroidery_type, "2500+")
    ELSE IF quantity >= 576 THEN Column(embroidery_type, "576")
    ELSE IF quantity >= 144 THEN Column(embroidery_type, "144")
    ELSE IF quantity >= 96 THEN Column(embroidery_type, "96")
    ELSE IF quantity >= 48 THEN Column(embroidery_type, "48")
    ELSE Column(embroidery_type, "24")

\* product_data.get(qty_column)
Cell(product_data, qty_column) ==
    IF qty_column \in DOMAIN product_data.cells THEN product_data.cells[qty_column] ELSE NaN

\* get_product_pricing(product_id, embroidery_type, quantity): the dict it
\* returns, money in cents
get_product_pricing(product_id, embroidery_type, quantity) ==
    LET id == NormalizeProductId(product_id)
        emb == NormalizeEmbroidery(embroidery_type, {<<"f", "l", "a", "t">>, <<"3", "d">>})
    IN  IF id \notin DOMAIN Products
        THEN [error |-> "not found", product_id |-> id]
        ELSE LET product_data == Products[id]
                 unit_price == Cell(product_data, QtyColumn(EmbroideryName(emb), quantity))
             IN  IF unit_price = NaN
                 THEN [error |-> "pricing not available", embroidery_type |-> emb,
                       quantity |-> quantity]
                 ELSE [product_id |-> id, product_title |-> product_data.title,
                       embroidery_type |-> emb, quantity |-> quantity,
                       unit_price |-> unit_price[1],
                       total_cost |-> unit_price[1] * quantity,
                       currency |-> "USD"]

\* the first patch of the file whose lowered name holds the lowered
\* patch_name: <<>> when patch_name is None or '' or no patch matches
RECURSIVE MatchingPatch(_, _)
MatchingPatch(patches, patch_name) ==
    IF patch_name = <<>> \/ patches = <<>> THEN <<>>
    ELSE IF Contains(Lower(patch_name), Lower(Head(patches).name)) THEN <<Head(patches)>>
    ELSE MatchingPatch(Tail(patches), patch_name)

\* calculate_total_price(product_id, quantity, embroidery_type, patch_name):
\* the dict it returns, money in cents; patch_name None is <<>>
calculate_total_price(product_id, quantity, embroidery_type, patch_name) ==
    LET id == NormalizeProductId(product_id)
        emb == NormalizeEmbroidery(embroidery_type,
                   {<<"f", "l", "a", "t">>, <<"3", "d">>, <<"n", "o", "n", "e">>})
    IN  IF id \notin DOMAIN Products
        THEN [error |-> "not found", product_id |-> id]
        ELSE LET product_data == Products[id]
                 base_price == Cell(product_data, QtyColumn(EmbroideryName(emb), quantity))
                 patch == MatchingPatch(Patches, patch_name)
                 patch_cost == IF patch = <<>> THEN 0 ELSE patch[1].price
             IN  IF base_price = NaN
                 THEN [error |-> "pricing not available", embroidery_type |-> emb,
                       quantity |-> quantity]
                 ELSE [product_id |-> id, product_title |-> product_data.title,
                       quantity |-> quantity, embroidery_type |-> emb,
                       base_price |-> base_price[1],
                       embroidery_cost |-> IF emb # <<"n", "o", "n", "e">> THEN base_price[1] ELSE 0,
                       patch_name |-> IF patch = <<>> THEN <<>> ELSE patch[1].name,
                       patch_cost |-> patch_cost,
                       unit_price |-> base_price[1] + patch_cost,
                       total_cost |-> (base_price[1] + patch_cost) * quantity,
                       currency |-> "USD",
                       itemized_breakdown |->
                           [base_product |-> base_price[1] * quantity,
                            patch |-> IF patch_cost > 0 THEN <<patch_cost * quantity>> ELSE <<>>]]

\* the arguments the tools are called with
ProductIds == {<<"i", "7", "0", "4", "1">>, <<"8", "5", "0", "2">>, <<"i", "0">>}
EmbroideryTypes == {<<"f", "l", "a", "t">>, <<"3", "D">>, <<"n", "o", "n", "e">>, <<"p", "u", "f", "f">>}
PatchNames == {<<>>, <<"w", "o", "v", "e", "n">>, <<"P", "a", "t", "c", "h">>, <<"f", "o", "i", "l">>}
Quantities == (0 - MaxReturned)..MaxQuantity

\* what a call of a tool was given and what it returned
Priced(tool, product_id, embroidery_type, quantity, patch_name, result) ==
    [op |-> tool, product_id |-> product_id, embroidery_type |-> embroidery_type,
     quantity |-> quantity, patch_name |-> patch_name, result |-> result]

CallGetProductPricing(product_id, embroidery_type, quantity) ==
    /\ last' = Priced("get_product_pricing", product_id, embroidery_type, quantity, <<>>,
                      get_product_pricing(product_id, embroidery_type, quantity))
    /\ UNCHANGED <<now, store, req, written, completed>>

CallCalculateTotalPrice(product_id, quantity, embroidery_type, patch_name) ==
    /\ last' = Priced("calculate_total_price", product_id, embroidery_type, quantity, patch_name,
                      calculate_total_price(product_id, quantity, embroidery_type, patch_name))
    /\ UNCHANGED <<now, store, req, written, completed>>

\* one call of a pricing tool
NextPricing ==
    \/ last.op = "init" /\ \E product_id \in ProductIds, embroidery_type \in EmbroideryTypes, quantity \in Quantities :
         CallGetProductPricing(product_id, embroidery_type, quantity)
    \/ last.op = "init" /\
       \E product_id \in ProductIds, embroidery_type \in EmbroideryTypes, quantity \in Quantities,
           patch_name \in PatchNames :
         CallCalculateTotalPrice(product_id, quantity, embroidery_type, patch_name)

SpecPricing == Init /\ [][NextPricing]_vars

----------------------------------------------------------------------------
(* C1 *)

\* the turns of a sequence of cycles, in call order
TurnsOf(cycles) ==
    Flatten([k \in DOMAIN cycles |->
                <<Turn("user", cycles[k].question), Turn("assistant", cycles[k].answer)>>])

\* C1: for one user asking one question after the other, with no clear and
\* no expiry, get_conversation_memory returns after n >= 0 completed
\* process_question cycles a list of exactly 2n messages, the user turn and
\* then the assistant turn of each cycle in call order; for n = 0 it returns
\* the empty record {"messages": [], "metadata": {}}.
C1_HistoryIsTheCyclesInOrder ==
    last.op = "get" =>
        /\ Len(last.got.messages) = 2 * Len(completed[last.user])
        /\ last.got.messages = TurnsOf(completed[last.user])
        /\ completed[last.user] = <<>> => last.got = EmptyMemory

C1_Witness ==
    /\ last.op = "get"
    /\ Len(completed[last.user]) = 4
    /\ Len(last.got.messages) = 8
    /\ last.got.messages[1].content # last.got.messages[3].content

----------------------------------------------------------------------------
(* C2 *)

\* the step is a read of the store by one of the program's functions
ReadStep == last'.op \in {"get", "read", "context"}

\* C2: a record lives exactly 12 hours (43200 s) from its most recent write:
\* every write sets the expiry of the key to now + 43200, a read leaves the
\* keyspace as it is, a get strictly before last write + 43200 returns the
\* record as written, and a get after last write + 43200 returns the empty
\* record, as a get of a user never stored does.
C2_TwelveHoursFromLastWrite ==
    [][/\ \A u \in Users :
            (store'[Key(u)] # store[Key(u)] /\ store'[Key(u)] # <<>>)
                => store'[Key(u)][1].exp = now + 43200
       /\ ReadStep => store' = store
       /\ last'.op = "get" =>
            LET w == written[last'.user]
            IN  /\ (w.state = "written" /\ now < w.at + 43200) => last'.got = w.doc
                /\ (w.state = "written" /\ now > w.at + 43200) => last'.got = EmptyMemory
                /\ w.state = "never" => last'.got = EmptyMemory]_vars

\* a get, more than 12 hours after the second write of a history, finds nothing
C2_Witness ==
    /\ last.op = "get"
    /\ written[last.user].state = "written"
    /\ Len(written[last.user].doc.messages) = 4
    /\ written[last.user].at > 0
    /\ now > written[last.user].at + 43200
    /\ last.got = EmptyMemory

----------------------------------------------------------------------------
(* C3 *)

\* C3: clear_conversation_memory(u) followed by get_conversation_memory(u)
\* returns the empty record {"messages": [], "metadata": {}} whatever the
\* size of the history before, also when there was no record: the clear
\* removes the key of u and touches nothing else, so that clearing an absent
\* user or clearing twice changes nothing.
C3_ClearThenGetIsEmpty ==
    [][/\ (last'.op = "get" /\ written[last'.user].state = "cleared")
            => last'.got = EmptyMemory
       /\ last'.op = "clear"
            => store' = [store EXCEPT ![Key(last'.user)] = <<>>]
       /\ (last'.op = "clear" /\ last.op = "clear" /\ last'.user = last.user)
            => store' = store]_vars

\* a get after the clear of a history of four turns
C3_Witness ==
    /\ last.op = "get"
    /\ written[last.user].state = "cleared"
    /\ written[last.user].removed = 4
    /\ last.got = EmptyMemory

----------------------------------------------------------------------------
(* C4 *)

\* C4: a Redis call that raises at a store step of a request (the read in
\* get_recent_context, the read in process_question, the write in
\* store_conversation_memory) or in a clear never fails the caller: the step
\* raises nothing, answers no 500 and leaves the keyspace as it was; a
\* failed read yields the empty record (and the empty hint); and whenever
\* agent.ainvoke returned, the request returns what it returned, with
\* status 200 through /chat/agent.
C4_StoreFailuresAreSwallowed ==
    [][/\ ~last'.up =>
            (last'.op # "raise" /\ last'.status # 500 /\ store' = store)
       /\ (~last'.up /\ last'.op \in {"get", "read"}) => last'.got = EmptyMemory
       /\ (~last'.up /\ last'.op = "context") => last'.hint = <<>>
       /\ last'.agent # <<>> =>
            /\ last'.op \in {"respond", "return"}
            /\ last'.response = last'.agent[1]
            /\ last'.op = "respond" => last'.status = 200]_vars

\* a request answered with 200 although each of its three Redis calls
\* raised, the record of an earlier request still in the store
C4_Witness ==
    /\ last.op = "respond"
    /\ last.status = 200
    /\ last.response \in Answers
    /\ last.faults = {"context", "read", "store"}
    /\ store[Key(last.user)] # <<>>

----------------------------------------------------------------------------
(* C5 *)

\* the step in which agent.ainvoke of request r returns
Answering(r) == req[r].pc = "agent" /\ req'[r].pc = "idle" /\ last'.agent # <<>>

\* all but the last element
Front(s) == SubSeq(s, 1, Len(s) - 1)

\* C5: the read-append-write of process_question is not atomic.  A request
\* that answers writes the list it read plus its own two turns, whatever the
\* store holds by then, and returns without error; so when another request
\* of the same user that read the same record wrote in between, the stored
\* history ends up with the pair of the later writer only, no longer than
\* before the write.
C5_LastWriteWins ==
    [][\A r \in Slots, u \in Users : (Answering(r) /\ req[r].user = u) =>
          LET mine == Append(req[r].messages, Turn("assistant", last'.agent[1]))
          IN  /\ last'.op = "return"
              /\ Stored(u)' = mine
              /\ (Len(Stored(u)) = Len(mine) /\ Front(Front(Stored(u))) = Front(req[r].messages))
                    => (Len(Stored(u)') = Len(Stored(u)) /\ Stored(u)' = Front(Front(Stored(u))) \o LastN(mine, 2))]_vars

\* two cycles of u1 returned since the last clear, with different answers,
\* and the store holds two turns only: those of the second
C5_Witness ==
    /\ last.op = "return"
    /\ last.user = "u1"
    /\ Len(completed["u1"]) = 2
    /\ completed["u1"][1].answer # completed["u1"][2].answer
    /\ Len(Stored("u1")) = 2
    /\ Stored("u1")[2].content = completed["u1"][2].answer

----------------------------------------------------------------------------
(* C6 *)

\* C6: requests of different users are independent under every
\* interleaving: a get, a clear or a step of a question/answer cycle of one
\* user leaves the stored record and the expiry of every other user as they
\* were.
C6_OtherUsersUntouched ==
    [][\A u \in Users : u # last'.user => store'[Key(u)] = store[Key(u)]]_vars

\* u1's cycle returns while u2, whose record differs, awaits the agent
C6_Witness ==
    /\ last.op = "return"
    /\ last.user = "u1"
    /\ \E r \in Slots : req[r].pc = "agent" /\ req[r].user = "u2"
    /\ store[Key("u2")] # <<>>
    /\ store[Key("u1")] # <<>>
    /\ Stored("u1") # Stored("u2")

----------------------------------------------------------------------------
(* C7 *)

\* the substrings of s that match 'i' followed by one or more digits, the
\* run of digits taken to its end
IdsIn(s) ==
    {SubSeq(s, p, CHOOSE q \in (p + 1)..Len(s) :
                     /\ \A k \in (p + 1)..q : IsDigit(s[k])
                     /\ q = Len(s) \/ ~IsDigit(s[q + 1])) :
        p \in {k \in DOMAIN s : s[k] = "i" /\ k < Len(s) /\ IsDigit(s[k + 1])}}

\* the ids in the contents of the turns from index a on
IdsFrom(messages, a) ==
    UNION {IdsIn(messages[k].content) : k \in {j \in DOMAIN messages : j >= a}}

\* C7: get_recent_context(u) scans the last 4 stored turns of u, all of
\* them when there are fewer: the ids its hint names are exactly the ids
\* ('i' and one or more digits) in the contents of those turns, none that
\* occurs only in the fifth turn from the end or before, and the hint is the
\* empty string exactly when there is no such id. (No step leaves the
\* observation of a get_recent_context call in place and changes the store.)
C7_HintNamesIdsOfLastFourTurns ==
    last.op = "context" =>
        LET messages == Stored(last.user)
            ids == IdsFrom(messages, Len(messages) - 3)
        IN  /\ IdsIn(last.hint) = ids
            /\ last.hint = <<>> <=> ids = {}

\* six turns stored, ids in the first two only, and the hint is empty
C7_Witness ==
    /\ last.op = "context"
    /\ Len(Stored(last.user)) = 6
    /\ IdsFrom(SubSeq(Stored(last.user), 1, 2), 1) # {}
    /\ IdsFrom(Stored(last.user), 3) = {}
    /\ last.hint = <<>>

----------------------------------------------------------------------------
(* C8 *)

\* the payload of agent.ainvoke of a request that awaits the agent
Payload(r) == FullMessages(req[r].messages, req[r].user_question)

Min(a, b) == IF a <= b THEN a ELSE b

\* C8 as claimed: a list of 2 or more messages makes a payload of exactly 7
\* entries, a list of 1 message the payload of that message alone.
C8_Claimed ==
    \A r \in Slots : req[r].pc = "agent" =>
        /\ Len(req[r].messages) >= 2 => Len(Payload(r)) = 7
        /\ Len(req[r].messages) = 1 => Payload(r) = req[r].messages

\* C8, amended: a list of n >= 2 messages makes a payload of min(n, 6) + 1
\* entries, the last min(n, 6) messages and then one synthesized system
\* message, hence 7 entries exactly when n >= 6; a list of 1 message makes
\* the payload of that user message alone.
C8_PayloadIsLastSixPlusOne ==
    \A r \in Slots : req[r].pc = "agent" =>
        LET n == Len(req[r].messages)
            kept == Min(n, 6)
        IN  /\ n >= 2 =>
                /\ Len(Payload(r)) = kept + 1
                /\ SubSeq(Payload(r), 1, kept) = SubSeq(req[r].messages, n - kept + 1, n)
                /\ Payload(r)[kept + 1].role = "system"
                /\ \A k \in 1..kept : Payload(r)[k].role # "system"
            /\ n = 1 => Payload(r) = req[r].messages

\* seven messages: the first is left out, six and the system message go
C8_Witness ==
    \E r \in Slots :
        /\ req[r].pc = "agent"
        /\ Len(req[r].messages) = 7
        /\ Len(Payload(r)) = 7
        /\ Payload(r)[1] = req[r].messages[2]

----------------------------------------------------------------------------
(* C9 *)

\* C9 as claimed: a cycle entered through ask_question(question, user_id)
\* writes the prior message list followed by a user turn whose content is
\* the caller's question and an assistant turn whose content is the agent's
\* answer.
C9_Claimed ==
    [][\A r \in Slots, u \in Users :
          (Answering(r) /\ req[r].user = u /\ req[r].via = "endpoint") =>
              Stored(u)' =
                  Stored(u) \o
                      <<Turn("user", req[r].query), Turn("assistant", last'.agent[1])>>]_vars

----------------------------------------------------------------------------
(* C10 *)

\* the metadata of the record of u as the server holds it
StoredMetadata(u) == JsonLoads(store[Key(u)][1].val).metadata

\* C10 as claimed: a question/answer cycle leaves the metadata of the
\* record as it was stored.
C10_Claimed ==
    [][\A r \in Slots, u \in Users :
          (Answering(r) /\ req[r].user = u /\ store[Key(u)] # <<>>) =>
              StoredMetadata(u)' = StoredMetadata(u)]_vars

----------------------------------------------------------------------------
(* C11 *)

\* s is an initial segment of t
IsPrefix(s, t) == Len(s) <= Len(t) /\ SubSeq(t, 1, Len(s)) = s

\* C11 as claimed: while a record lives (it is there before the step and
\* the step is no clear), every write stores a list that has the list
\* stored before as a prefix, also when requests of one user overlap.
C11_Claimed ==
    [][\A u \in Users :
          (store[Key(u)] # <<>> /\ store'[Key(u)] # <<>>) =>
              IsPrefix(Stored(u), Stored(u)')]_vars

\* C11, amended: a request that answers writes the list it read followed by
\* its user turn and its assistant turn.  So when the record holds at the
\* write the list the request read (no other write, clear or expiry took
\* effect in between), the write extends the stored list by exactly these
\* two turns and leaves every turn stored before in place.
C11_WriteExtendsWhatWasRead ==
    [][\A r \in Slots, u \in Users :
          (Answering(r) /\ req[r].user = u /\ Stored(u) = Front(req[r].messages)) =>
              /\ IsPrefix(Stored(u), Stored(u)')
              /\ Len(Stored(u)') = Len(Stored(u)) + 2
              /\ \A k \in DOMAIN Stored(u) : Stored(u)'[k] = Stored(u)[k]]_vars

\* a cycle of u1 that read two turns has returned and four turns are stored,
\* while another request of u1 awaits the agent
C11_Witness ==
    /\ last.op = "return"
    /\ last.user = "u1"
    /\ Len(Stored("u1")) = 4
    /\ \E r \in Slots : req[r].pc = "agent" /\ req[r].user = "u1"

----------------------------------------------------------------------------
(* C12 *)

\* C12 as claimed: once a clear of u has returned, the record of u stays
\* absent (every get returns the empty record) until a question submitted
\* after the clear is persisted.  A request that answers while the clear is
\* the last write to the key, and that read a history of one turn or more,
\* read it before the clear (with the store reachable a read after the
\* clear finds nothing): its return leaves the record absent, and no turn
\* stored before the clear is stored again.
C12_Claimed ==
    [][\A r \in Slots, u \in Users :
          (/\ Answering(r)
           /\ req[r].user = u
           /\ written[u].state = "cleared"
           /\ Len(req[r].messages) > 1) =>
              store'[Key(u)] = <<>>]_vars

----------------------------------------------------------------------------
(* C13 *)

\* C13: a request awaits agent.ainvoke once, after its read.  When the call
\* raises, the step ends the request (no second call, no fallback answer),
\* the caller gets status 500 with the exception's message in the detail,
\* and the store is as it was; no step of a request other than the return of
\* an answer changes the store, so the record and its expiry are as before
\* the request: neither the question nor an answer is persisted.
C13_AgentFailureEndsTheRequest ==
    [][\A r \in Slots :
          /\ (req[r].pc = "agent" /\ req'[r] # req[r] /\ last'.agent = <<>>) =>
                /\ req'[r] = Idle
                /\ last'.op = "respond"
                /\ last'.status = 500
                /\ last'.user = req[r].user
                /\ \E e \in Errors : last'.response = ErrorDetail(e)
                /\ store' = store
          /\ (req'[r] # req[r] /\ ~Answering(r)) => store' = store]_vars

\* the second request of u1 failed in the agent: the answer is 500 with the
\* agent's message, and the two turns of the first request are stored
C13_Witness ==
    /\ last.op = "respond"
    /\ last.status = 500
    /\ last.user = "u1"
    /\ last.response = ErrorDetail(<<"b", "o", "o", "m">>)
    /\ req[SeqSlot] = Idle
    /\ Len(Stored("u1")) = 2
    /\ Len(completed["u1"]) = 1

----------------------------------------------------------------------------
(* C14 *)

\* user, assistant, user, assistant, ... : an even number of turns, two or
\* more, the odd ones of the user and the even ones of the assistant
Alternates(messages) ==
    /\ Len(messages) > 0
    /\ Len(messages) % 2 = 0
    /\ \A k \in DOMAIN messages :
          messages[k].role = IF k % 2 = 1 THEN "user" ELSE "assistant"

\* C14: starting from an empty store, under every interleaving of
\* question/answer cycles, clears and expiries, the messages of every record
\* in the store are of even, non-zero length and alternate user, assistant
\* from the first on; no system turn is stored.
C14_StoredTurnsAlternate ==
    \A u \in Users : store[Key(u)] # <<>> =>
        /\ Alternates(Stored(u))
        /\ \A k \in DOMAIN Stored(u) : Stored(u)[k].role # "system"

\* four turns are stored after a cycle whose payload had a system message,
\* past the first expiry of the key, with another request awaiting the agent
C14_Witness ==
    /\ last.op = "return"
    /\ Len(Stored(SeqUser)) = 4
    /\ now > TTL
    /\ \E r \in Slots : req[r].pc = "agent"

----------------------------------------------------------------------------
(* C15 *)

\* C15: in a sequence of ask_question calls of one user, with no clear, no
\* expiry and no overlapping request, the ids of the hint built for a call
\* include the ids of the hint built for the call before it: the hint is
\* part of the user turn that is stored and is scanned again, so an id once
\* hinted stays in the hint after the turns that named it left the last four.
C15_HintIdsNeverDrop ==
    [][\A r \in Slots, u \in Users :
          (/\ req[r].pc = "context"
           /\ req'[r].pc = "read"
           /\ req[r].user = u
           /\ completed[u] # <<>>) =>
              IdsIn(completed[u][Len(completed[u])].hint) \subseteq IdsIn(last'.hint)]_vars

\* the fourth call: six turns stored, i12 named by the first answer only,
\* which is no longer among the last four turns, and the hint names i12
C15_Witness ==
    /\ last.op = "context"
    /\ Len(Stored(SeqUser)) = 6
    /\ Len(completed[SeqUser]) = 3
    /\ Stored(SeqUser)[2].content = <<"i", "9", "i", "1", "2">>
    /\ Stored(SeqUser)[4].content = <<"o", "k">>
    /\ Stored(SeqUser)[6].content = <<"o", "k">>
    /\ <<"i", "1", "2">> \in IdsIn(completed[SeqUser][3].hint)
    /\ <<"i", "1", "2">> \in IdsIn(last.hint)

----------------------------------------------------------------------------
(* C16 *)

\* the tier the claim names for a quantity: the largest of 24, 48, 96, 144,
\* 576 and 2500 that is <= quantity, and 24 for every quantity below 48
TierOf(quantity) ==
    IF quantity < 48 THEN 24
    ELSE CHOOSE t \in {24, 48, 96, 144, 576, 2500} :
            /\ t <= quantity
            /\ \A other \in {24, 48, 96, 144, 576, 2500} : other <= quantity => other <= t

\* the column label of a tier
TierLabel(t) ==
    CASE t = 24 -> "24" [] t = 48 -> "48" [] t = 96 -> "96"
      [] t = 144 -> "144" [] t = 576 -> "576" [] t = 2500 -> "2500+"

\* the cell the claim names for a call: the row of the product, the column
\* of the embroidery type the tool works with and of the tier of the quantity
TierCell(call) ==
    LET product == Products[call.result.product_id]
        column == Column(EmbroideryName(call.result.embroidery_type),
                         TierLabel(TierOf(call.quantity)))
    IN  IF column \in DOMAIN product.cells THEN product.cells[column] ELSE <<>>

\* the per-unit price of the patch the claim adds: of the first patch whose
\* name holds the given name, letter case aside; 0 without such a patch
PatchPrice(call) ==
    LET hits == {k \in DOMAIN Patches :
                    call.patch_name # <<>> /\ Contains(Lower(call.patch_name), Lower(Patches[k].name))}
    IN  IF hits = {} THEN 0
        ELSE Patches[CHOOSE k \in hits : \A j \in hits : k <= j].price

\* C16: get_product_pricing and calculate_total_price take the price of the
\* same tier for every integer quantity, the largest tier <= quantity and
\* the 24 tier below 48 (below 24, zero and negative included); the
\* total_cost they return is that per-unit price, plus the per-unit patch
\* price in calculate_total_price, times the requested quantity.
C16_TierAndTotal ==
    (last.op \in {"get_product_pricing", "calculate_total_price"}
        /\ "total_cost" \in DOMAIN last.result) =>
        /\ TierCell(last) # <<>>
        /\ last.op = "get_product_pricing" =>
              /\ last.result.unit_price = TierCell(last)[1]
              /\ last.result.total_cost = TierCell(last)[1] * last.quantity
        /\ last.op = "calculate_total_price" =>
              /\ last.result.base_price = TierCell(last)[1]
              /\ last.result.total_cost =
                    (TierCell(last)[1] + PatchPrice(last)) * last.quantity

\* 48 units are priced in the 48 tier, with the patch on top
C16_Witness ==
    /\ last.op = "calculate_total_price"
    /\ last.product_id = <<"i", "7", "0", "4", "1">>
    /\ last.quantity = 48
    /\ last.patch_name = <<"w", "o", "v", "e", "n">>
    /\ "total_cost" \in DOMAIN last.result
    /\ last.result.base_price = 1450
    /\ last.result.total_cost = (1450 + 500) * 48

====
